---- MODULE Spec2Model ----
(***************************************************************************)
(* Stage graph and progress engine of the factory-management backend:      *)
(* production stages (models/ProductionStage.ts), their REST handlers     *)
(* (controllers/productionController.ts) and the work-order aggregation   *)
(* (the WorkOrder model, second half of models/Company.ts).               *)
(*                                                                         *)
(* The collections are functions from document id to document; a handler   *)
(* is one action (load, check, mutate, save, cascade).  Arrays of ids are  *)
(* modelled as sets: no handler depends on their order or on duplicates.   *)
(* Dates are readings of the clock `now`; NoDate is an unset date field.   *)
(***************************************************************************)
EXTENDS Integers, Sequences, FiniteSets, TLC

\* ------------------------------------------------------------------ bounds
MaxTarget == 2   \* largest targetQuantity a request body carries
MaxQty    == 3   \* largest completedQuantity a request carries
MaxNow    == 2   \* last reading of the clock

\* ------------------------------------------------------------ value spaces
Ids       == {"A", "B", "C"}
Companies == {"c1", "c2"}
Users     == {"u1", "u2"}
NoUser    == "none"
NoDate    == 0

UserRole == {"super_admin", "admin", "supervisor", "employee"}

ProductionStageStatus == {"planned", "in_progress", "completed", "on_hold", "cancelled"}

VARIABLES
  stages,   \* the ProductionStage collection: [existing ids -> stage document]
  now,      \* the clock read by `new Date()`
  last,     \* the last request handled: what it was and how it ended
  wo,       \* the WorkOrder collection: [existing ids -> work order document]
  reqs,     \* the progress requests in flight: [request slots -> request record]
  tasks     \* the Task collection: [existing ids -> task document]

vars == <<stages, now, last, wo, reqs, tasks>>

Min(a, b) == IF a <= b THEN a ELSE b
Max(a, b) == IF a >= b THEN a ELSE b

\* Object.assign / object spread: a field of the body when the body has it.
Get(body, f, dflt) == IF f \in DOMAIN body THEN body[f] ELSE dflt

\* What a request leaves in `last`.
Outcome(op, id, q, code, prev, activation) ==
  [op |-> op, id |-> id, q |-> q, code |-> code, prev |-> prev, activation |-> activation]

\* ------------------------------------------------------- ProductionStage.ts

\* new ProductionStage({...req.body, companyId}): the schema defaults, then the body.
NewStage(body, companyId) ==
  [ companyId         |-> companyId,
    status            |-> Get(body, "status", "planned"),
    targetQuantity    |-> body.targetQuantity,
    completedQuantity |-> Get(body, "completedQuantity", 0),
    wipQuantity       |-> Get(body, "wipQuantity", 0),
    predecessors      |-> Get(body, "predecessors", {}),
    successors        |-> Get(body, "successors", {}),
    startDate         |-> Get(body, "startDate", NoDate),
    endDate           |-> Get(body, "endDate", NoDate),
    supervisor        |-> Get(body, "supervisor", NoUser),
    assignedTo        |-> Get(body, "assignedTo", {}) ]

\* Object.assign(stage, req.body)
AssignStage(stage, body) ==
  [ companyId         |-> Get(body, "companyId", stage.companyId),
    status            |-> Get(body, "status", stage.status),
    targetQuantity    |-> Get(body, "targetQuantity", stage.targetQuantity),
    completedQuantity |-> Get(body, "completedQuantity", stage.completedQuantity),
    wipQuantity       |-> Get(body, "wipQuantity", stage.wipQuantity),
    predecessors      |-> Get(body, "predecessors", stage.predecessors),
    successors        |-> Get(body, "successors", stage.successors),
    startDate         |-> Get(body, "startDate", stage.startDate),
    endDate           |-> Get(body, "endDate", stage.endDate),
    supervisor        |-> Get(body, "supervisor", stage.supervisor),
    assignedTo        |-> Get(body, "assignedTo", stage.assignedTo) ]

\* The schema validators that run on save.
SchemaValid(stage) ==
  /\ stage.status \in ProductionStageStatus
  /\ stage.targetQuantity >= 1
  /\ stage.completedQuantity >= 0
  /\ stage.wipQuantity >= 0

\* canUserAccess letting every role through.
canUserAccess_Any(stage, userId, role) ==
  role \in {"super_admin", "admin", "supervisor", "employee"}

canUserAccess(stage, userId, role) ==
  \/ role = "super_admin" \/ role = "admin"
  \/ role = "supervisor" /\ stage.supervisor = userId
  \/ role = "employee" /\ userId \in stage.assignedTo

\* updateProgress with the clamp removed.
updateProgress_NoClamp(stage, completedQuantity, t) ==
  LET s1 == [stage EXCEPT !.completedQuantity = completedQuantity,
                          !.wipQuantity = Max(0, stage.targetQuantity - completedQuantity)]
  IN  IF s1.completedQuantity >= s1.targetQuantity
        THEN [s1 EXCEPT !.status = "completed", !.endDate = t]
      ELSE IF s1.completedQuantity > 0
        THEN [s1 EXCEPT !.status = "in_progress",
                        !.startDate = IF stage.startDate = NoDate THEN t ELSE stage.startDate]
      ELSE s1

\* updateProgress stamping startDate on every in-progress update.
updateProgress_Restamp(stage, completedQuantity, t) ==
  LET cq == Min(completedQuantity, stage.targetQuantity)
      s1 == [stage EXCEPT !.completedQuantity = cq,
                          !.wipQuantity = Max(0, stage.targetQuantity - cq)]
  IN  IF s1.completedQuantity >= s1.targetQuantity
        THEN [s1 EXCEPT !.status = "completed", !.endDate = t]
      ELSE IF s1.completedQuantity > 0
        THEN [s1 EXCEPT !.status = "in_progress", !.startDate = t]
      ELSE s1

\* The document updateProgress(completedQuantity) saves, at clock reading t.
updateProgress(stage, completedQuantity, t) ==
  LET cq == Min(completedQuantity, stage.targetQuantity)
      s1 == [stage EXCEPT !.completedQuantity = cq,
                          !.wipQuantity = Max(0, stage.targetQuantity - cq)]
  IN  IF s1.completedQuantity >= s1.targetQuantity
        THEN [s1 EXCEPT !.status = "completed", !.endDate = t]
      ELSE IF s1.completedQuantity > 0
        THEN [s1 EXCEPT !.status = "in_progress",
                        !.startDate = IF stage.startDate = NoDate THEN t ELSE stage.startDate]
      ELSE s1

\* getNextStages following the successor edges transitively.
RECURSIVE Downstream(_, _, _)
Downstream(db, frontier, seen) ==
  LET new == { i \in DOMAIN db : \E f \in frontier : i \in db[f].successors } \ seen
  IN  IF new = {} THEN seen ELSE Downstream(db, new, seen \cup new)

getNextStages_Transitive(db, stage) ==
  LET first == { i \in DOMAIN db : i \in stage.successors /\ db[i].companyId = stage.companyId }
  IN  { i \in Downstream(db, first, first) : db[i].companyId = stage.companyId }

\* find({_id: {$in: this.successors}, companyId: this.companyId})
getNextStages(db, stage) ==
  { i \in DOMAIN db : i \in stage.successors /\ db[i].companyId = stage.companyId }

\* The pre-save cycle check.  hasCycle reads every stage from the collection
\* (findById), the stage being saved included; acc carries the closure's two
\* sets and the verdict.
RECURSIVE hasCycle(_, _, _)
RECURSIVE visitSuccessors(_, _, _)

\* The state of a pass before its first call: the two sets of the hook, the
\* verdict, and the ids handed to findById so far, in order.
NewPass == [ cycle |-> FALSE, visited |-> {}, recursionStack |-> {}, fetched |-> << >> ]

hasCycle_NoVisited(db, stageId, acc) ==
  IF stageId \in acc.recursionStack THEN [acc EXCEPT !.cycle = TRUE]
  ELSE LET acc1 == [ cycle          |-> FALSE,
                     visited        |-> acc.visited \cup {stageId},
                     recursionStack |-> acc.recursionStack \cup {stageId},
                     fetched        |-> Append(acc.fetched, stageId) ]
           succ == IF stageId \in DOMAIN db THEN db[stageId].successors ELSE {}
           r    == visitSuccessors(db, succ, acc1)
       IN  IF r.cycle THEN r ELSE [r EXCEPT !.recursionStack = @ \ {stageId}]

hasCycle(db, stageId, acc) ==
  IF stageId \in acc.recursionStack THEN [acc EXCEPT !.cycle = TRUE]
  ELSE IF stageId \in acc.visited THEN acc
  ELSE LET acc1 == [ cycle          |-> FALSE,
                     visited        |-> acc.visited \cup {stageId},
                     recursionStack |-> acc.recursionStack \cup {stageId},
                     fetched        |-> Append(acc.fetched, stageId) ]
           succ == IF stageId \in DOMAIN db THEN db[stageId].successors ELSE {}
           r    == visitSuccessors(db, succ, acc1)
       IN  IF r.cycle THEN r ELSE [r EXCEPT !.recursionStack = @ \ {stageId}]

visitSuccessors(db, todo, acc) ==
  IF todo = {} THEN acc
  ELSE LET x == CHOOSE y \in todo : TRUE
           r == hasCycle(db, x, acc)
       IN  IF r.cycle THEN r ELSE visitSuccessors(db, todo \ {x}, r)

\* The ids the pass started at stage id hands to findById: each id is added
\* to visited right before it is fetched.
CycleReads(db, id) ==
  hasCycle(db, id, NewPass).visited

\* pre('save'): TRUE when the save goes through.  edgesModified is
\* isModified('successors') || isModified('predecessors').
PreSaveDag(db, id, edgesModified) ==
  ~ ( edgesModified
      /\ hasCycle(db, id, NewPass).cycle )

\* ------------------------------------------------- productionController.ts

\* The route guard that runs before a handler (middleware/auth.ts).
supervisorOrHigher(role) == role \in {"super_admin", "admin", "supervisor"}
adminOrHigher(role) == role \in {"super_admin", "admin"}

\* The successor activation loop of updateStageProgress, on the collection
\* as it is after the triggering stage was saved.
ActivateNext_Stamp(db, id) ==
  LET nextStages == getNextStages(db, db[id])
  IN  [ i \in DOMAIN db |->
          IF i \in nextStages /\ db[i].status = "planned"
            THEN [db[i] EXCEPT !.status = "in_progress", !.startDate = now]
            ELSE db[i] ]

ActivateNext(db, id) ==
  LET nextStages == getNextStages(db, db[id])
  IN  [ i \in DOMAIN db |->
          IF i \in nextStages /\ db[i].status = "planned"
            THEN [db[i] EXCEPT !.status = "in_progress"]
            ELSE db[i] ]

CreateProductionStage(actor, id, body) ==
  /\ id \notin DOMAIN stages
  /\ UNCHANGED <<now, wo, reqs, tasks>>
  /\ IF ~ supervisorOrHigher(actor.role)
       THEN /\ last' = Outcome("create", id, 0, 403, 0, FALSE)
            /\ UNCHANGED stages
     ELSE IF body.targetQuantity < 1
       THEN /\ last' = Outcome("create", id, 0, 400, 0, FALSE)
            /\ UNCHANGED stages
     ELSE IF actor.role \notin {"admin", "supervisor"}
       THEN /\ last' = Outcome("create", id, 0, 403, 0, FALSE)
            /\ UNCHANGED stages
     ELSE LET stage == NewStage(body, actor.companyId)
          IN  IF ~ SchemaValid(stage)
                THEN /\ last' = Outcome("create", id, 0, 400, 0, FALSE)
                     /\ UNCHANGED stages
              ELSE IF ~ PreSaveDag(stages, id, TRUE)
                THEN /\ last' = Outcome("create", id, 0, 500, 0, FALSE)
                     /\ UNCHANGED stages
              ELSE /\ stages' = [ i \in DOMAIN stages \cup {id} |->
                                    IF i = id THEN stage ELSE stages[i] ]
                   /\ last' = Outcome("create", id, 0, 201, 0, FALSE)

UpdateProductionStage(actor, id, body) ==
  /\ UNCHANGED <<now, wo, reqs, tasks>>
  /\ IF ~ supervisorOrHigher(actor.role)
       THEN /\ last' = Outcome("update", id, 0, 403, 0, FALSE)
            /\ UNCHANGED stages
     ELSE IF "targetQuantity" \in DOMAIN body /\ body.targetQuantity < 1
       THEN /\ last' = Outcome("update", id, 0, 400, 0, FALSE)
            /\ UNCHANGED stages
     ELSE IF id \notin DOMAIN stages
       THEN /\ last' = Outcome("update", id, 0, 404, 0, FALSE)
            /\ UNCHANGED stages
     ELSE IF \/ stages[id].companyId # actor.companyId
             \/ actor.role = "employee"
             \/ actor.role = "supervisor" /\ stages[id].supervisor # actor.id
       THEN /\ last' = Outcome("update", id, 0, 403, 0, FALSE)
            /\ UNCHANGED stages
     ELSE LET stage == AssignStage(stages[id], body)
              edgesModified == \/ stage.successors # stages[id].successors
                               \/ stage.predecessors # stages[id].predecessors
          IN  IF ~ SchemaValid(stage)
                THEN /\ last' = Outcome("update", id, 0, 400, 0, FALSE)
                     /\ UNCHANGED stages
              ELSE IF ~ PreSaveDag(stages, id, edgesModified)
                THEN /\ last' = Outcome("update", id, 0, 500, 0, FALSE)
                     /\ UNCHANGED stages
              ELSE /\ stages' = [stages EXCEPT ![id] = stage]
                   /\ last' = Outcome("update", id, 0, 200, 0, FALSE)

UpdateStageProgress(actor, id, completedQuantity) ==
  /\ UNCHANGED <<now, wo, reqs, tasks>>
  /\ IF completedQuantity < 0
       THEN /\ last' = Outcome("progress", id, completedQuantity, 400, 0, FALSE)
            /\ UNCHANGED stages
     ELSE IF id \notin DOMAIN stages
       THEN /\ last' = Outcome("progress", id, completedQuantity, 404, 0, FALSE)
            /\ UNCHANGED stages
     ELSE IF \/ stages[id].companyId # actor.companyId
             \/ ~ canUserAccess(stages[id], actor.id, actor.role)
       THEN /\ last' = Outcome("progress", id, completedQuantity, 403, 0, FALSE)
            /\ UNCHANGED stages
     ELSE LET previousQuantity == stages[id].completedQuantity
              stage      == updateProgress(stages[id], completedQuantity, now)
              saved      == [stages EXCEPT ![id] = stage]
              activation == stage.status = "completed"
                            /\ previousQuantity < stage.targetQuantity
          IN  /\ stages' = IF activation THEN ActivateNext(saved, id) ELSE saved
              /\ last' = Outcome("progress", id, completedQuantity, 200,
                                 previousQuantity, activation)

\* ---------------------------- updateStageProgress, one step per await
\* Two requests can be inside the handler at once; each holds the documents
\* it loaded and is scheduled again after every await.

Slots == {"r1", "r2"}

NoDoc == << >>

Request(pc, actor, id, q, loaded, doc, prev, snap, todo) ==
  [ pc |-> pc, actor |-> actor, id |-> id, q |-> q, loaded |-> loaded, doc |-> doc,
    prev |-> prev, snap |-> snap, todo |-> todo ]

IdleRequest ==
  Request("idle", [role |-> "admin", id |-> "u1", companyId |-> "c1"], "A", 0,
          NoDoc, NoDoc, 0, << >>, << >>)

\* document.save() of a loaded document: the update it sends sets the paths
\* whose value differs from the loaded one, every other path stays as it is
\* in the collection.
SaveDelta(persisted, loaded, doc) ==
  [ f \in DOMAIN persisted |-> IF doc[f] # loaded[f] THEN doc[f] ELSE persisted[f] ]

\* The orders in which find() can return the documents of ids.
Orders(ids) ==
  { o \in [1..Cardinality(ids) -> ids] : \A i \in ids : \E k \in DOMAIN o : o[k] = i }

\* The part of the loop's remaining list that starts at the next successor
\* whose loaded status is planned: the others are skipped without a write.
RECURSIVE SkipToPlanned(_, _)
SkipToPlanned(snap, todo) ==
  IF todo = << >> THEN << >>
  ELSE IF snap[Head(todo)].status = "planned" THEN todo
  ELSE SkipToPlanned(snap, Tail(todo))

\* Validation, findById and the access checks.
ProgressLoad(r, actor, id, completedQuantity) ==
  /\ reqs[r].pc = "idle"
  /\ UNCHANGED <<stages, now, wo, tasks>>
  /\ IF completedQuantity < 0
       THEN /\ last' = Outcome("progress", id, completedQuantity, 400, 0, FALSE)
            /\ UNCHANGED reqs
     ELSE IF id \notin DOMAIN stages
       THEN /\ last' = Outcome("progress", id, completedQuantity, 404, 0, FALSE)
            /\ UNCHANGED reqs
     ELSE IF \/ stages[id].companyId # actor.companyId
             \/ ~ canUserAccess(stages[id], actor.id, actor.role)
       THEN /\ last' = Outcome("progress", id, completedQuantity, 403, 0, FALSE)
            /\ UNCHANGED reqs
     ELSE /\ reqs' = [reqs EXCEPT ![r] =
                        Request("loaded", actor, id, completedQuantity, stages[id],
                                stages[id], stages[id].completedQuantity, << >>, << >>)]
          /\ UNCHANGED last

\* stage.updateProgress(completedQuantity): mutate the loaded document and
\* save it; then the test that decides whether successors are activated.
ProgressSave(r) ==
  LET q     == reqs[r]
      stage == updateProgress(q.loaded, q.q, now)
      activation == stage.status = "completed" /\ q.prev < stage.targetQuantity
  IN  /\ q.pc = "loaded"
      /\ UNCHANGED <<now, wo, tasks>>
      /\ IF q.id \notin DOMAIN stages
           THEN /\ UNCHANGED stages
                /\ reqs' = [reqs EXCEPT ![r] = IdleRequest]
                /\ last' = Outcome("progress", q.id, q.q, 500, q.prev, FALSE)
           ELSE /\ stages' = [stages EXCEPT ![q.id] = SaveDelta(@, q.loaded, stage)]
                /\ IF activation
                     THEN /\ reqs' = [reqs EXCEPT ![r].pc = "saved", ![r].doc = stage]
                          /\ UNCHANGED last
                     ELSE /\ reqs' = [reqs EXCEPT ![r] = IdleRequest]
                          /\ last' = Outcome("progress", q.id, q.q, 200, q.prev, FALSE)

\* stage.getNextStages(): the successors as the collection holds them now, in
\* the order the query returns them; a loop with nothing to write returns.
ProgressFindNext(r) ==
  LET q    == reqs[r]
      snap == [ i \in getNextStages(stages, q.doc) |-> stages[i] ]
  IN  /\ q.pc = "saved"
      /\ UNCHANGED <<stages, now, wo, tasks>>
      /\ \E order \in Orders(DOMAIN snap) :
           LET todo == SkipToPlanned(snap, order)
           IN  IF todo = << >>
                 THEN /\ reqs' = [reqs EXCEPT ![r] = IdleRequest]
                      /\ last' = Outcome("progress", q.id, q.q, 200, q.prev, TRUE)
                 ELSE /\ reqs' = [reqs EXCEPT ![r].pc = "activating", ![r].snap = snap,
                                              ![r].todo = todo]
                      /\ UNCHANGED last

\* nextStage.save() threw inside request q: the exception leaves the loop and
\* the handler; nothing is written after it and nothing is undone.
ActivationAbort(db, q) == db

\* One turn of the loop: nextStage.status = in_progress and nextStage.save()
\* on the next planned successor.  The save throws when the persistence layer
\* fails or the document is gone.
ProgressActivate(r, fails) ==
  LET q    == reqs[r]
      b    == Head(q.todo)
      rest == SkipToPlanned(q.snap, Tail(q.todo))
      next == [q.snap[b] EXCEPT !.status = "in_progress"]
  IN  /\ q.pc = "activating"
      /\ UNCHANGED <<now, wo, tasks>>
      /\ IF fails \/ b \notin DOMAIN stages
           THEN /\ stages' = ActivationAbort(stages, q)
                /\ reqs' = [reqs EXCEPT ![r] = IdleRequest]
                /\ last' = Outcome("progress", q.id, q.q, 500, q.prev, TRUE)
           ELSE /\ stages' = [stages EXCEPT ![b] = SaveDelta(@, q.snap[b], next)]
                /\ IF rest = << >>
                     THEN /\ reqs' = [reqs EXCEPT ![r] = IdleRequest]
                          /\ last' = Outcome("progress", q.id, q.q, 200, q.prev, TRUE)
                     ELSE /\ reqs' = [reqs EXCEPT ![r].todo = rest]
                          /\ UNCHANGED last

\* GET /stages/:id: nothing is written; `last` keeps what the caller was told.
GetProductionStageById(actor, id) ==
  /\ UNCHANGED <<stages, now, wo, reqs, tasks>>
  /\ IF id \notin DOMAIN stages
       THEN last' = Outcome("read", id, 0, 404, 0, FALSE)
     ELSE IF \/ stages[id].companyId # actor.companyId
             \/ ~ canUserAccess(stages[id], actor.id, actor.role)
       THEN last' = Outcome("read", id, 0, 403, 0, FALSE)
     ELSE last' = Outcome("read", id, 0, 200, 0, FALSE)

\* findByIdAndDelete(id)
RemoveStage(db, id) == [ i \in DOMAIN db \ {id} |-> db[i] ]

\* deleteProductionStage with the in_progress guard removed.
DeleteGuard_None(stage) == FALSE

\* "Check if stage is in use": the status that blocks a delete.
DeleteGuard(stage) == stage.status = "in_progress"

DeleteProductionStage(actor, id) ==
  /\ UNCHANGED <<now, wo, reqs, tasks>>
  /\ IF ~ adminOrHigher(actor.role) \/ actor.role # "admin"
       THEN /\ last' = Outcome("delete", id, 0, 403, 0, FALSE)
            /\ UNCHANGED stages
     ELSE IF id \notin DOMAIN stages
       THEN /\ last' = Outcome("delete", id, 0, 404, 0, FALSE)
            /\ UNCHANGED stages
     ELSE IF stages[id].companyId # actor.companyId
       THEN /\ last' = Outcome("delete", id, 0, 403, 0, FALSE)
            /\ UNCHANGED stages
     ELSE IF DeleteGuard(stages[id])
       THEN /\ last' = Outcome("delete", id, 0, 400, 0, FALSE)
            /\ UNCHANGED stages
     ELSE /\ stages' = RemoveStage(stages, id)
          /\ last' = Outcome("delete", id, 0, 200, 0, FALSE)

\* deleteProductionStage one step per await.  The role test, findById and
\* the tests on the loaded document, the in_progress guard among them.
DeleteLoad(r, actor, id) ==
  /\ reqs[r].pc = "idle"
  /\ UNCHANGED <<stages, now, wo, tasks>>
  /\ IF ~ adminOrHigher(actor.role) \/ actor.role # "admin"
       THEN /\ last' = Outcome("delete", id, 0, 403, 0, FALSE)
            /\ UNCHANGED reqs
     ELSE IF id \notin DOMAIN stages
       THEN /\ last' = Outcome("delete", id, 0, 404, 0, FALSE)
            /\ UNCHANGED reqs
     ELSE IF stages[id].companyId # actor.companyId
       THEN /\ last' = Outcome("delete", id, 0, 403, 0, FALSE)
            /\ UNCHANGED reqs
     ELSE IF DeleteGuard(stages[id])
       THEN /\ last' = Outcome("delete", id, 0, 400, 0, FALSE)
            /\ UNCHANGED reqs
     ELSE /\ reqs' = [reqs EXCEPT ![r] =
                        Request("deleting", actor, id, 0, stages[id], stages[id],
                                0, << >>, << >>)]
          /\ UNCHANGED last

\* findByIdAndDelete(id): removes whatever document has the id now, none if
\* it is gone, and the handler answers 200.
DeleteRemove(r) ==
  /\ reqs[r].pc = "deleting"
  /\ UNCHANGED <<now, wo, tasks>>
  /\ stages' = RemoveStage(stages, reqs[r].id)
  /\ reqs' = [reqs EXCEPT ![r] = IdleRequest]
  /\ last' = Outcome("delete", reqs[r].id, 0, 200, 0, FALSE)

\* ------------------------------------------- WorkOrder (models/Company.ts)

\* A JavaScript number that is a quotient of two integers, in lowest terms.
RECURSIVE Gcd(_, _)
Gcd(a, b) == IF b = 0 THEN a ELSE Gcd(b, a % b)

Rat(n, d) == [num |-> n \div Gcd(n, d), den |-> d \div Gcd(n, d)]

WorkOrderStatus == {"draft", "active", "paused", "completed", "cancelled"}
EntryStatus     == {"pending", "in_progress", "completed", "skipped"}

\* One element of workOrder.stages as the schema builds it from the body.
NewEntry(body) ==
  [ stageId           |-> body.stageId,
    status            |-> Get(body, "status", "pending"),
    completedQuantity |-> Get(body, "completedQuantity", 0),
    startDate         |-> Get(body, "startDate", NoDate),
    endDate           |-> Get(body, "endDate", NoDate) ]

\* new WorkOrder({...req.body, companyId, createdBy})
NewWorkOrder(body, companyId) ==
  [ companyId         |-> companyId,
    status            |-> Get(body, "status", "draft"),
    targetQuantity    |-> body.targetQuantity,
    completedQuantity |-> Rat(Get(body, "completedQuantity", 0), 1),
    actualEndDate     |-> Get(body, "actualEndDate", NoDate),
    stages            |-> [ i \in 1..Len(body.stages) |-> NewEntry(body.stages[i]) ] ]

\* this.stages.find(s => s.stageId.toString() === stageId): the index of the
\* first entry of that stage, 0 when there is none.
FindEntry(entries, stageId) ==
  IF \E i \in 1..Len(entries) : entries[i].stageId = stageId
    THEN CHOOSE i \in 1..Len(entries) :
           /\ entries[i].stageId = stageId
           /\ \A j \in 1..(i - 1) : entries[j].stageId # stageId
    ELSE 0

\* EntryProgress moving any entry with a quantity to in_progress.
EntryProgress_AnyStatus(entry, completedQuantity, targetQuantity, t) ==
  LET e1 == [entry EXCEPT !.completedQuantity = completedQuantity]
      e2 == IF completedQuantity > 0
              THEN [e1 EXCEPT !.status = "in_progress", !.startDate = t]
              ELSE e1
  IN  IF completedQuantity >= targetQuantity
        THEN [e2 EXCEPT !.status = "completed", !.endDate = t]
        ELSE e2

\* The entry after updateStageProgress wrote the quantity into it;
\* targetQuantity is the work order's.
EntryProgress(entry, completedQuantity, targetQuantity, t) ==
  LET e1 == [entry EXCEPT !.completedQuantity = completedQuantity]
      e2 == IF completedQuantity > 0 /\ e1.status = "pending"
              THEN [e1 EXCEPT !.status = "in_progress", !.startDate = t]
              ELSE e1
  IN  IF completedQuantity >= targetQuantity
        THEN [e2 EXCEPT !.status = "completed", !.endDate = t]
        ELSE e2

RECURSIVE SumCompleted(_, _)
SumCompleted(entries, n) ==
  IF n = 0 THEN 0 ELSE entries[n].completedQuantity + SumCompleted(entries, n - 1)

\* OverallQuantity taking the sum of the entries, not their average.
OverallQuantity_Sum(entries, targetQuantity) ==
  LET totalCompleted == SumCompleted(entries, Len(entries))
  IN  Rat(Min(totalCompleted, targetQuantity), 1)

\* Math.min(totalCompleted / this.stages.length, this.targetQuantity)
OverallQuantity(entries, targetQuantity) ==
  LET totalCompleted == SumCompleted(entries, Len(entries))
  IN  IF totalCompleted <= targetQuantity * Len(entries)
        THEN Rat(totalCompleted, Len(entries))
        ELSE Rat(targetQuantity, 1)

\* OverallStatus completing the work order as soon as one entry is completed.
OverallStatus_Some(w, entries, overall, t) ==
  IF \E i \in 1..Len(entries) : entries[i].status = "completed"
    THEN [w EXCEPT !.status = "completed", !.actualEndDate = t]
  ELSE IF overall.num > 0 /\ w.status = "draft"
    THEN [w EXCEPT !.status = "active"]
  ELSE w

\* The status and actualEndDate updateStageProgress derives from the entries.
OverallStatus(w, entries, overall, t) ==
  IF \A i \in 1..Len(entries) : entries[i].status = "completed"
    THEN [w EXCEPT !.status = "completed", !.actualEndDate = t]
  ELSE IF overall.num > 0 /\ w.status = "draft"
    THEN [w EXCEPT !.status = "active"]
  ELSE w

\* The document workOrder.updateStageProgress(stageId, completedQuantity)
\* saves when the work order has an entry for stageId.
WorkOrder_updateStageProgress(w, stageId, completedQuantity, t) ==
  LET i       == FindEntry(w.stages, stageId)
      entries == [w.stages EXCEPT
                    ![i] = EntryProgress(@, completedQuantity, w.targetQuantity, t)]
      overall == OverallQuantity(entries, w.targetQuantity)
  IN  [ OverallStatus(w, entries, overall, t) EXCEPT
          !.stages = entries, !.completedQuantity = overall ]

\* createWorkOrder (productionController.ts)
CreateWorkOrder(actor, id, body) ==
  /\ id \notin DOMAIN wo
  /\ UNCHANGED <<now, stages, reqs, tasks>>
  /\ IF ~ supervisorOrHigher(actor.role)
       THEN /\ last' = Outcome("wo_create", id, 0, 403, 0, FALSE)
            /\ UNCHANGED wo
     ELSE IF body.targetQuantity < 1 \/ Len(body.stages) < 1
       THEN /\ last' = Outcome("wo_create", id, 0, 400, 0, FALSE)
            /\ UNCHANGED wo
     ELSE IF actor.role \notin {"admin", "supervisor"}
       THEN /\ last' = Outcome("wo_create", id, 0, 403, 0, FALSE)
            /\ UNCHANGED wo
     ELSE /\ wo' = [ i \in DOMAIN wo \cup {id} |->
                       IF i = id THEN NewWorkOrder(body, actor.companyId) ELSE wo[i] ]
          /\ last' = Outcome("wo_create", id, 0, 201, 0, FALSE)

\* A call of workOrder.updateStageProgress on a loaded work order: it throws
\* when the work order has no entry for stageId, and saves otherwise.
WorkOrderUpdateStageProgress(id, stageId, completedQuantity) ==
  /\ id \in DOMAIN wo
  /\ UNCHANGED <<now, stages, reqs, tasks>>
  /\ IF FindEntry(wo[id].stages, stageId) = 0
       THEN /\ last' = Outcome("wo_progress", stageId, completedQuantity, 500, 0, FALSE)
            /\ UNCHANGED wo
       ELSE /\ wo' = [wo EXCEPT
                        ![id] = WorkOrder_updateStageProgress(@, stageId, completedQuantity, now)]
            /\ last' = Outcome("wo_progress", stageId, completedQuantity, 200, 0, FALSE)

\* ----------------------------- Task (models/User.ts), task controller

\* new Task({...taskData, workOrderId, stageId, assignedTo, supervisor, companyId})
NewTask(body, actor) ==
  [ companyId         |-> actor.companyId,
    workOrderId       |-> body.workOrderId,
    stageId           |-> body.stageId,
    assignedTo        |-> body.assignedTo,
    supervisor        |-> IF actor.role = "supervisor" THEN actor.id
                          ELSE Get(body, "supervisor", actor.id),
    status            |-> "pending",
    targetQuantity    |-> body.targetQuantity,
    completedQuantity |-> 0,
    startDate         |-> NoDate,
    actualEndDate     |-> NoDate ]

\* taskSchema.methods.updateProgress: the document it saves at clock reading t.
Task_updateProgress(task, completedQuantity, t) ==
  LET t1 == [task EXCEPT !.completedQuantity = Min(completedQuantity, task.targetQuantity)]
  IN  IF t1.completedQuantity >= t1.targetQuantity
        THEN [t1 EXCEPT !.status = "completed", !.actualEndDate = t]
      ELSE IF t1.completedQuantity > 0 /\ t1.status = "pending"
        THEN [t1 EXCEPT !.status = "in_progress", !.startDate = t]
      ELSE t1

\* createTask; the product and the assignee of the body are taken to exist in
\* the caller's tenant.
CreateTask(actor, id, body) ==
  /\ id \notin DOMAIN tasks
  /\ UNCHANGED <<stages, now, wo, reqs>>
  /\ IF ~ supervisorOrHigher(actor.role)
       THEN /\ last' = Outcome("task_create", id, 0, 403, 0, FALSE)
            /\ UNCHANGED tasks
     ELSE IF body.targetQuantity < 1
       THEN /\ last' = Outcome("task_create", id, 0, 400, 0, FALSE)
            /\ UNCHANGED tasks
     ELSE IF actor.role \notin {"admin", "supervisor"}
       THEN /\ last' = Outcome("task_create", id, 0, 403, 0, FALSE)
            /\ UNCHANGED tasks
     ELSE IF \/ body.workOrderId \notin DOMAIN wo
             \/ body.stageId \notin DOMAIN stages
       THEN /\ last' = Outcome("task_create", id, 0, 404, 0, FALSE)
            /\ UNCHANGED tasks
     ELSE IF \/ wo[body.workOrderId].companyId # actor.companyId
             \/ stages[body.stageId].companyId # actor.companyId
       THEN /\ last' = Outcome("task_create", id, 0, 404, 0, FALSE)
            /\ UNCHANGED tasks
     ELSE /\ tasks' = [ i \in DOMAIN tasks \cup {id} |->
                          IF i = id THEN NewTask(body, actor) ELSE tasks[i] ]
          /\ last' = Outcome("task_create", id, 0, 201, 0, FALSE)

\* updateTaskProgress: the task is saved, then the work order of the task is
\* loaded and its entry for the task's stage gets the requested quantity.
UpdateTaskProgress(actor, id, completedQuantity) ==
  /\ UNCHANGED <<stages, now, reqs>>
  /\ IF completedQuantity < 0
       THEN /\ last' = Outcome("task_progress", id, completedQuantity, 400, 0, FALSE)
            /\ UNCHANGED <<tasks, wo>>
     ELSE IF id \notin DOMAIN tasks
       THEN /\ last' = Outcome("task_progress", id, completedQuantity, 404, 0, FALSE)
            /\ UNCHANGED <<tasks, wo>>
     ELSE IF \/ tasks[id].companyId # actor.companyId
             \/ actor.role = "employee" /\ tasks[id].assignedTo # actor.id
             \/ actor.role = "supervisor" /\ tasks[id].supervisor # actor.id
       THEN /\ last' = Outcome("task_progress", id, completedQuantity, 403, 0, FALSE)
            /\ UNCHANGED <<tasks, wo>>
     ELSE LET task == Task_updateProgress(tasks[id], completedQuantity, now)
              w    == task.workOrderId
          IN  /\ tasks' = [tasks EXCEPT ![id] = task]
              /\ IF w \notin DOMAIN wo
                   THEN /\ UNCHANGED wo
                        /\ last' = Outcome("task_progress", id, completedQuantity, 200,
                                           tasks[id].completedQuantity, FALSE)
                 ELSE IF FindEntry(wo[w].stages, task.stageId) = 0
                   THEN /\ UNCHANGED wo
                        /\ last' = Outcome("task_progress", id, completedQuantity, 500,
                                           tasks[id].completedQuantity, FALSE)
                 ELSE /\ wo' = [wo EXCEPT ![w] =
                                  WorkOrder_updateStageProgress(@, task.stageId,
                                                                completedQuantity, now)]
                      /\ last' = Outcome("task_progress", id, completedQuantity, 200,
                                         tasks[id].completedQuantity, FALSE)

\* Time passes between two requests.
Tick ==
  /\ now < MaxNow
  /\ now' = now + 1
  /\ UNCHANGED <<stages, last, wo, reqs, tasks>>

\* ---------------------------------------------------------- specifications

Actor(role, id, companyId) == [role |-> role, id |-> id, companyId |-> companyId]

Actors ==
  { Actor("admin", "u1", "c1"), Actor("super_admin", "u1", "c1"),
    Actor("supervisor", "u2", "c1"), Actor("employee", "u2", "c1"),
    Actor("admin", "u1", "c2") }

Init ==
  /\ stages = << >>
  /\ now = 1
  /\ last = Outcome("none", "A", 0, 0, 0, FALSE)
  /\ wo = << >>
  /\ reqs = [r \in Slots |-> IdleRequest]
  /\ tasks = << >>

\* Spec: one stage of the first tenant, with every quantity, status and date
\* a request can give it; the second tenant's admin asks for it too.
SpecIds == {"A"}

Creators == { a \in Actors : a.companyId = "c1" }

CreateBodies ==
  { [targetQuantity |-> t, supervisor |-> "u1", assignedTo |-> {"u2"}] : t \in 0..MaxTarget }

UpdateBodies ==
  { [targetQuantity |-> t] : t \in 0..MaxTarget }
    \cup { [completedQuantity |-> q] : q \in 0..MaxQty }
    \cup { [status |-> s] : s \in ProductionStageStatus }
    \cup { [successors |-> s] : s \in SUBSET SpecIds }

Next ==
  \/ \E actor \in Creators, id \in SpecIds, body \in CreateBodies :
       CreateProductionStage(actor, id, body)
  \/ \E actor \in Actors, id \in SpecIds, body \in UpdateBodies :
       UpdateProductionStage(actor, id, body)
  \/ \E actor \in Actors, id \in SpecIds, q \in -1..MaxQty :
       UpdateStageProgress(actor, id, q)
  \/ Tick

Spec == Init /\ [][Next]_vars

\* SpecGraph: three stages and every successor set a body can carry.  A new
\* stage can list the stages that exist; an edit can list any id.  The second
\* tenant creates stage C only.
OwnIds(companyId) == IF companyId = "c1" THEN Ids ELSE {"C"}

GraphActors == { Actor("admin", "u1", "c1"), Actor("admin", "u1", "c2") }

GraphCreateBodies ==
  { [targetQuantity |-> 1, successors |-> s] : s \in SUBSET (DOMAIN stages) }

GraphUpdateBodies ==
  { [successors |-> s] : s \in SUBSET Ids }
    \cup { [predecessors |-> p] : p \in {{}, {"C"}} }

NextGraph ==
  \/ \E actor \in GraphActors :
       \E id \in OwnIds(actor.companyId), body \in GraphCreateBodies :
         CreateProductionStage(actor, id, body)
  \/ \E actor \in GraphActors, id \in Ids, body \in GraphUpdateBodies :
       UpdateProductionStage(actor, id, body)

SpecGraph == Init /\ [][NextGraph]_vars

\* SpecCascade: a production line A, B, C of target 1 whose edges run
\* forward (A into B and C, B into C), and the progress updates on it.
CascadeEdges(id) ==
  IF id = "A" THEN SUBSET {"B", "C"} ELSE IF id = "B" THEN SUBSET {"C"} ELSE {{}}

CascadeCreateBodies(id) ==
  { [targetQuantity |-> 1, successors |-> s] : s \in CascadeEdges(id) }

CascadeUpdateBodies(id) ==
  { [successors |-> s] : s \in CascadeEdges(id) }

NextCascade ==
  \/ \E actor \in GraphActors :
       \E id \in OwnIds(actor.companyId) :
         \E body \in CascadeCreateBodies(id) :
           CreateProductionStage(actor, id, body)
  \/ \E actor \in GraphActors, id \in Ids :
       \E body \in CascadeUpdateBodies(id) :
         UpdateProductionStage(actor, id, body)
  \/ \E actor \in GraphActors, id \in Ids, q \in 0..1 :
       UpdateStageProgress(actor, id, q)

SpecCascade == Init /\ [][NextCascade]_vars

\* SpecWO: one work order of one or two stage entries, created with the
\* statuses a body can give it, and the progress written into its entries.
WoIds == {"W"}

WoActors == { Actor("admin", "u1", "c1"), Actor("employee", "u2", "c1") }

WoEntryBodies ==
  { [stageId |-> s] : s \in {"A", "B"} }
    \cup { [stageId |-> s, status |-> "skipped"] : s \in {"A", "B"} }

WoStageLists ==
  { << >> } \cup { <<e>> : e \in WoEntryBodies }
    \cup { <<e, f>> : e \in WoEntryBodies, f \in WoEntryBodies }

WoCreateBodies ==
  { [targetQuantity |-> t, stages |-> l] : t \in 0..MaxTarget, l \in WoStageLists }
    \cup { [targetQuantity |-> t, stages |-> l, status |-> st] :
             t \in 1..MaxTarget, l \in WoStageLists, st \in WorkOrderStatus }

NextWO ==
  \/ \E actor \in WoActors, id \in WoIds, body \in WoCreateBodies :
       CreateWorkOrder(actor, id, body)
  \/ \E id \in WoIds, stageId \in {"A", "B"}, q \in 0..MaxQty :
       WorkOrderUpdateStageProgress(id, stageId, q)
  \/ Tick

SpecWO == Init /\ [][NextWO]_vars

\* SpecAccess: one stage of the first tenant with the supervisors and
\* assignees a body can give it, and every request on it by every actor: read,
\* edit (status, companyId), progress and delete.
AccessCreateBodies ==
  { [targetQuantity |-> MaxTarget, supervisor |-> s, assignedTo |-> a] :
      s \in Users, a \in {{}, {"u2"}} }

AccessUpdateBodies ==
  { [status |-> s] : s \in ProductionStageStatus }
    \cup { [companyId |-> c] : c \in Companies }

NextAccess ==
  \/ \E actor \in Creators, id \in SpecIds, body \in AccessCreateBodies :
       CreateProductionStage(actor, id, body)
  \/ \E actor \in Actors, id \in SpecIds, body \in AccessUpdateBodies :
       UpdateProductionStage(actor, id, body)
  \/ \E actor \in Actors, id \in SpecIds, q \in 0..MaxTarget :
       UpdateStageProgress(actor, id, q)
  \/ \E actor \in Actors, id \in SpecIds :
       GetProductionStageById(actor, id)
  \/ \E actor \in Actors, id \in SpecIds :
       DeleteProductionStage(actor, id)

SpecAccess == Init /\ [][NextAccess]_vars

\* SpecSteps: the line A -> {B, C} of the first tenant and two progress
\* requests on A that run through the handler one await at a time, with the
\* persistence layer free to fail a successor's save.
StepActors == { Actor("admin", "u1", "c1") }

StepCreateBodies(id) ==
  IF id = "A" THEN { [targetQuantity |-> MaxTarget, successors |-> {"B", "C"}] }
              ELSE { [targetQuantity |-> 1] }

NextSteps ==
  \/ \E actor \in StepActors, id \in Ids :
       \E body \in StepCreateBodies(id) :
         CreateProductionStage(actor, id, body)
  \/ \E r \in Slots, actor \in StepActors, id \in SpecIds, q \in 0..MaxTarget :
       ProgressLoad(r, actor, id, q)
  \/ \E r \in Slots : ProgressSave(r)
  \/ \E r \in Slots : ProgressFindNext(r)
  \/ \E r \in Slots, fails \in BOOLEAN : ProgressActivate(r, fails)

SpecSteps == Init /\ [][NextSteps]_vars

\* SpecBubble: stage A, a work order whose entries refer to A and B, a task
\* on A in that work order, and the two kinds of progress update.
BubbleActors == { Actor("admin", "u1", "c1"), Actor("employee", "u2", "c1") }

BubbleStageBodies == { [targetQuantity |-> MaxTarget, assignedTo |-> {"u2"}] }

BubbleWoBodies ==
  { [targetQuantity |-> t, stages |-> l] :
      t \in 1..MaxTarget,
      l \in { <<[stageId |-> "A"]>>, <<[stageId |-> "B"]>>,
              <<[stageId |-> "A"], [stageId |-> "B"]>> } }

TaskIds == {"T"}

BubbleTaskBodies ==
  { [workOrderId |-> w, stageId |-> "A", assignedTo |-> "u2", targetQuantity |-> t] :
      w \in WoIds, t \in 1..MaxTarget }

NextBubble ==
  \/ \E actor \in BubbleActors, id \in SpecIds, body \in BubbleStageBodies :
       CreateProductionStage(actor, id, body)
  \/ \E actor \in BubbleActors, id \in WoIds, body \in BubbleWoBodies :
       CreateWorkOrder(actor, id, body)
  \/ \E actor \in BubbleActors, id \in TaskIds, body \in BubbleTaskBodies :
       CreateTask(actor, id, body)
  \/ \E actor \in BubbleActors, id \in SpecIds, q \in 0..MaxQty :
       UpdateStageProgress(actor, id, q)
  \/ \E actor \in BubbleActors, id \in TaskIds, q \in 0..MaxQty :
       UpdateTaskProgress(actor, id, q)

SpecBubble == Init /\ [][NextBubble]_vars

\* SpecWOPlain: a work order created with its entries pending at quantity 0
\* and no status of its own in the body, then changed only by progress on
\* its entries.
PlainWoCreateBodies ==
  { [targetQuantity |-> t, stages |-> l] :
      t \in 1..MaxTarget,
      l \in { <<[stageId |-> "A"]>>, <<[stageId |-> "A"], [stageId |-> "B"]>> } }

NextWOPlain ==
  \/ \E actor \in StepActors, id \in WoIds, body \in PlainWoCreateBodies :
       CreateWorkOrder(actor, id, body)
  \/ \E id \in WoIds, stageId \in {"A", "B"}, q \in 0..MaxQty :
       WorkOrderUpdateStageProgress(id, stageId, q)
  \/ Tick

SpecWOPlain == Init /\ [][NextWOPlain]_vars

\* SpecRace: stage A of target 1 with the one successor B of target 1, both
\* set up before the first request (an id is never issued twice), and two
\* requests in flight at a time: progress updates and deletes of A and B.
RaceIds == {"A", "B"}

RaceCreateBodies(id) ==
  IF id = "A" THEN { [targetQuantity |-> 1, successors |-> {"B"}] }
              ELSE { [targetQuantity |-> 1] }

NextRace ==
  \/ /\ last.op \in {"none", "create"}
     /\ \E actor \in StepActors, id \in RaceIds :
          \E body \in RaceCreateBodies(id) :
            CreateProductionStage(actor, id, body)
  \/ \E r \in Slots, actor \in StepActors, id \in RaceIds, q \in 0..1 :
       ProgressLoad(r, actor, id, q)
  \/ \E r \in Slots : ProgressSave(r)
  \/ \E r \in Slots : ProgressFindNext(r)
  \/ \E r \in Slots : ProgressActivate(r, FALSE)
  \/ \E r \in Slots, actor \in StepActors, id \in RaceIds :
       DeleteLoad(r, actor, id)
  \/ \E r \in Slots : DeleteRemove(r)

SpecRace == Init /\ [][NextRace]_vars

\* SpecProgress: one stage that, once created, is changed by progress
\* updates only, while the clock runs.
ProgressCreateBodies == { [targetQuantity |-> t] : t \in 1..MaxTarget }

NextProgress ==
  \/ \E actor \in StepActors, id \in SpecIds, body \in ProgressCreateBodies :
       CreateProductionStage(actor, id, body)
  \/ \E actor \in StepActors, id \in SpecIds, q \in 0..MaxQty :
       UpdateStageProgress(actor, id, q)
  \/ Tick

SpecProgress == Init /\ [][NextProgress]_vars

\* ------------------------------------------------------------ stage claims

\* C2: a progress update that asks for a quantity q >= targetQuantity leaves
\* completedQuantity equal to targetQuantity and the status completed, however
\* large q is and whatever the stage looked like before.
C2_ClampToTarget ==
  ( /\ last.op = "progress" /\ last.code = 200
    /\ last.id \in DOMAIN stages
    /\ last.q >= stages[last.id].targetQuantity )
  => /\ stages[last.id].completedQuantity = stages[last.id].targetQuantity
     /\ stages[last.id].status = "completed"

\* C2 witness: a request above the target was served and was clamped.
C2_Witness ==
  /\ last.op = "progress" /\ last.code = 200
  /\ last.id \in DOMAIN stages
  /\ last.q > stages[last.id].targetQuantity
  /\ stages[last.id].completedQuantity = stages[last.id].targetQuantity
  /\ last.prev # stages[last.id].targetQuantity

\* C3: every persisted stage has targetQuantity >= 1 and
\* 0 <= completedQuantity <= targetQuantity.
C3_QuantityRange ==
  \A id \in DOMAIN stages :
    /\ stages[id].targetQuantity >= 1
    /\ 0 <= stages[id].completedQuantity
    /\ stages[id].completedQuantity <= stages[id].targetQuantity

\* C4: every persisted stage has wipQuantity = targetQuantity - completedQuantity
\* and wipQuantity >= 0, from its creation on.
C4_WipDerived ==
  \A id \in DOMAIN stages :
    /\ stages[id].wipQuantity = stages[id].targetQuantity - stages[id].completedQuantity
    /\ stages[id].wipQuantity >= 0

\* C5: a progress update never changes a startDate that is already set.
C5_StartDateSetOnce ==
  [][ \A id \in DOMAIN stages :
        (last'.op = "progress" /\ stages[id].startDate # NoDate)
        => stages'[id].startDate = stages[id].startDate ]_vars

\* C5 witness: a later progress update (it stamped endDate at a later clock
\* reading) found startDate set and kept it.
C5_Witness ==
  /\ last.op = "progress" /\ last.code = 200
  /\ last.id \in DOMAIN stages
  /\ stages[last.id].startDate # NoDate
  /\ stages[last.id].endDate > stages[last.id].startDate

\* The stages of db reachable from the stages in frontier along one or more
\* successor edges that stay inside one tenant.
RECURSIVE TenantReach(_, _, _)
TenantReach(db, frontier, seen) ==
  LET new == { i \in DOMAIN db :
                 \E f \in frontier : i \in db[f].successors
                                     /\ db[i].companyId = db[f].companyId } \ seen
  IN  IF new = {} THEN seen ELSE TenantReach(db, new, seen \cup new)

\* C1: the persisted successor relation of every tenant is acyclic: no stage
\* reaches itself along successor edges (a stage that lists itself included),
\* because every mutation that would close such a path is rejected.
C1_Acyclic ==
  \A id \in DOMAIN stages : id \notin TenantReach(stages, {id}, {})

\* C6: when a progress update newly completes stage a (its recorded quantity
\* was below the target and the request reaches it), every direct successor
\* of a (a stage of a's tenant that a lists) that is planned becomes
\* in_progress, and every other stage keeps its status: no second level.
C6_OneLevelCascade ==
  [][ ( /\ last'.op = "progress" /\ last'.code = 200
        /\ last'.prev < stages[last'.id].targetQuantity
        /\ last'.q >= stages[last'.id].targetQuantity )
      => \A b \in DOMAIN stages \ {last'.id} :
           stages'[b].status =
             IF /\ b \in stages[last'.id].successors
                /\ stages[b].companyId = stages[last'.id].companyId
                /\ stages[b].status = "planned"
               THEN "in_progress"
               ELSE stages[b].status ]_vars

\* C6 witness: a -> b -> c, the update completed a, b is in_progress and c,
\* which a does not list, is still planned.
C6_Witness ==
  /\ last.op = "progress" /\ last.code = 200 /\ last.activation
  /\ last.id \in DOMAIN stages
  /\ last.prev < stages[last.id].targetQuantity
  /\ last.q >= stages[last.id].targetQuantity
  /\ \E b, c \in DOMAIN stages :
       /\ b # last.id /\ c # last.id /\ b # c
       /\ b \in stages[last.id].successors
       /\ c \notin stages[last.id].successors
       /\ c \in stages[b].successors
       /\ stages[b].companyId = stages[last.id].companyId
       /\ stages[c].companyId = stages[last.id].companyId
       /\ stages[b].status = "in_progress"
       /\ stages[c].status = "planned"

\* C7: a progress update activates successors only when it newly completes
\* the stage: an update whose recorded quantity was already at the target, or
\* whose requested quantity is below the target, changes no other stage's
\* status.
C7_ActivationOnlyOnNewCompletion ==
  [][ ( /\ last'.op = "progress" /\ last'.code = 200
        /\ ~ ( /\ last'.prev < stages[last'.id].targetQuantity
               /\ last'.q >= stages[last'.id].targetQuantity ) )
      => \A b \in DOMAIN stages \ {last'.id} :
           stages'[b].status = stages[b].status ]_vars

\* ------------------------------------------------------- work-order claims

\* A step of WorkOrder.updateStageProgress that saved (Tick leaves the clock
\* changed, every other request leaves another op in last).
WoProgressSaved ==
  /\ last'.op = "wo_progress" /\ last'.code = 200
  /\ now' = now

\* C8: after a successful WorkOrder.updateStageProgress the overall
\* completedQuantity is min(sum of the entries' completedQuantity / number of
\* entries, targetQuantity): the average of the entries, not their sum.
C8_AverageOfEntries ==
  \A id \in DOMAIN wo :
    (last.op = "wo_progress" /\ last.code = 200)
    => LET n   == Len(wo[id].stages)
           sum == SumCompleted(wo[id].stages, n)
           cq  == wo[id].completedQuantity
       IN  IF sum <= wo[id].targetQuantity * n
             THEN cq.num * n = sum * cq.den
             ELSE cq.num = wo[id].targetQuantity * cq.den

\* C8 witness: two entries whose quantities differ; the overall quantity is
\* their average, a half, and neither their sum nor the target.
C8_Witness ==
  /\ last.op = "wo_progress" /\ last.code = 200
  /\ \E id \in DOMAIN wo :
       /\ Len(wo[id].stages) = 2
       /\ wo[id].stages[1].completedQuantity # wo[id].stages[2].completedQuantity
       /\ wo[id].completedQuantity.den = 2
       /\ wo[id].completedQuantity.num < 2 * wo[id].targetQuantity

\* C9: WorkOrder.updateStageProgress(stageId, q) sets the first entry of that
\* stage to quantity q; the entry ends completed, with an end time, when q
\* reaches the work order's targetQuantity; otherwise in_progress, with a
\* start time, when it was pending and q > 0; otherwise with the status it had.
C9_EntryUpdate ==
  [][ WoProgressSaved =>
      \A id \in DOMAIN wo :
        LET i  == FindEntry(wo[id].stages, last'.id)
            e  == wo[id].stages[i]
            e2 == wo'[id].stages[i]
            q  == last'.q
        IN  /\ e2.completedQuantity = q
            /\ e2.status = IF q >= wo[id].targetQuantity THEN "completed"
                           ELSE IF e.status = "pending" /\ q > 0 THEN "in_progress"
                           ELSE e.status
            /\ (e.status = "pending" /\ q > 0) => e2.startDate = now
            /\ (q >= wo[id].targetQuantity) => e2.endDate = now ]_vars

\* C9 witness: a quantity below the target was written into an entry, which
\* is in_progress with a start time.
C9_Witness ==
  /\ last.op = "wo_progress" /\ last.code = 200
  /\ \E id \in DOMAIN wo :
       LET i == FindEntry(wo[id].stages, last.id)
       IN  /\ 0 < last.q /\ last.q < wo[id].targetQuantity
           /\ wo[id].stages[i].completedQuantity = last.q
           /\ wo[id].stages[i].status = "in_progress"
           /\ wo[id].stages[i].startDate # NoDate

\* C10: after WorkOrder.updateStageProgress the work order is completed
\* exactly when every entry is completed after the update or it was completed
\* before; the update stamps actualEndDate when every entry is completed;
\* otherwise a draft work order becomes active exactly when the recomputed
\* overall quantity is positive, and any other status stays.
C10_WorkOrderStatus ==
  [][ WoProgressSaved =>
      \A id \in DOMAIN wo :
        LET w    == wo[id]
            w2   == wo'[id]
            all2 == \A i \in 1..Len(w2.stages) : w2.stages[i].status = "completed"
        IN  /\ (w2.status = "completed") <=> (all2 \/ w.status = "completed")
            /\ all2 => w2.actualEndDate = now
            /\ (~ all2) =>
                 w2.status = IF w.status = "draft" /\ w2.completedQuantity.num > 0
                               THEN "active" ELSE w.status ]_vars

\* C10 witness: the update that completed the second of two entries completed
\* the work order and stamped actualEndDate.
C10_Witness ==
  /\ last.op = "wo_progress" /\ last.code = 200
  /\ \E id \in DOMAIN wo :
       /\ Len(wo[id].stages) = 2
       /\ wo[id].stages[1].stageId # wo[id].stages[2].stageId
       /\ \A i \in 1..2 : /\ wo[id].stages[i].status = "completed"
                          /\ wo[id].stages[i].endDate # NoDate
       /\ wo[id].status = "completed"
       /\ wo[id].actualEndDate # NoDate

\* ------------------------------------------- delete, failure, access claims

\* C11: a delete request on a stage whose status is in_progress is rejected
\* and changes no stage; a delete by an admin of the stage's tenant on a stage
\* that is planned or completed answers 200 and removes that stage and no
\* other.
C11_DeleteGuard ==
  [][ /\ ( /\ last'.op = "delete"
           /\ last'.id \in DOMAIN stages
           /\ stages[last'.id].status = "in_progress" )
         => (last'.code # 200 /\ stages' = stages)
      /\ \A actor \in Actors, id \in DOMAIN stages :
           ( /\ DeleteProductionStage(actor, id)
             /\ actor.role = "admin"
             /\ stages[id].companyId = actor.companyId
             /\ stages[id].status \in {"planned", "completed"} )
           => (last'.code = 200 /\ stages' = RemoveStage(stages, id)) ]_vars

\* C11 witness: a delete of an in_progress stage by its tenant's admin was
\* answered 400 and the stage is still there.
C11_Witness ==
  /\ last.op = "delete" /\ last.code = 400
  /\ last.id \in DOMAIN stages
  /\ stages[last.id].status = "in_progress"

\* C12: when a progress update newly completes a stage (the quantity it read
\* was below the target and the requested one reaches it), its save leaves
\* the triggering stage persisted as completed, and writes no other stage,
\* before the successors are looked up; and no later step of the request, a
\* failed successor write included, writes the triggering stage again.
C12_TriggerPersistedFirst ==
  [][ \A r \in Slots :
        /\ ( /\ reqs[r].pc = "loaded" /\ reqs'[r].pc = "saved"
             /\ reqs[r].prev < reqs[r].loaded.targetQuantity
             /\ reqs[r].q >= reqs[r].loaded.targetQuantity )
           => /\ stages'[reqs[r].id].status = "completed"
              /\ \A b \in DOMAIN stages \ {reqs[r].id} : stages'[b] = stages[b]
        /\ (reqs[r].pc \in {"saved", "activating"} /\ reqs'[r] # reqs[r])
           => /\ reqs[r].id \in DOMAIN stages'
              /\ stages'[reqs[r].id] = stages[reqs[r].id] ]_vars

\* C13: when the write of one planned successor fails, every other successor
\* of the newly completed stage that is still planned is set to in_progress
\* before the request ends.
C13_BestEffortPerSuccessor ==
  [][ \A r \in Slots :
        ( /\ reqs[r].pc = "activating" /\ reqs'[r].pc = "idle"
          /\ last'.code = 500 )
        => \A k \in 2..Len(reqs[r].todo) :
             LET b == reqs[r].todo[k]
             IN  (b \in DOMAIN stages /\ stages[b].status = "planned")
                 => stages'[b].status = "in_progress" ]_vars

\* C14: a read, edit, progress or delete request on a stage of another tenant
\* has the outcome it has when no stage of that id exists.  For an admin, who
\* passes every route guard, with a valid body, that outcome is 404.
C14_NoExistenceLeak ==
  [][ \A actor \in Actors, id \in DOMAIN stages :
        ( /\ actor.role = "admin"
          /\ stages[id].companyId # actor.companyId
          /\ \/ GetProductionStageById(actor, id)
             \/ DeleteProductionStage(actor, id)
             \/ \E q \in 0..MaxQty : UpdateStageProgress(actor, id, q)
             \/ \E body \in AccessUpdateBodies : UpdateProductionStage(actor, id, body) )
        => last'.code = 404 ]_vars

\* ------------------------------------------------------------ tenant claims

\* C15: every id in a persisted stage's predecessors or successors that is
\* the id of a stage is the id of a stage of the same tenant: no create or
\* edit persists an edge to a stage of another tenant.
C15_EdgesSameTenant ==
  \A id \in DOMAIN stages :
    \A e \in (stages[id].successors \cup stages[id].predecessors) \cap DOMAIN stages :
      stages[e].companyId = stages[id].companyId

\* C16: the cycle-detection pass that guards an edit of the edges of a stage
\* of tenant T (the edit was saved with changed edges, or was refused for a
\* cycle) fetches stages of tenant T only.  The successor lookup of successor
\* activation is the other traversal; C6 covers what it returns.
C16_TraversalWithinTenant ==
  [][ \A id \in DOMAIN stages :
        ( /\ last'.op = "update" /\ last'.id = id
          /\ \/ last'.code = 500
             \/ /\ last'.code = 200
                /\ \/ stages'[id].successors # stages[id].successors
                   \/ stages'[id].predecessors # stages[id].predecessors )
        => \A x \in CycleReads(stages, id) \cap DOMAIN stages :
             stages[x].companyId = stages[id].companyId ]_vars

\* C17: no request changes the tenant id of an existing stage, whatever its
\* body carries.
C17_TenantIdFixed ==
  [][ \A id \in DOMAIN stages \cap DOMAIN stages' :
        stages'[id].companyId = stages[id].companyId ]_vars

\* C18: the document a progress update's save leaves in the collection is
\* the document that update computed from the state it loaded, whatever
\* another update wrote between the load and the save: last write wins, with
\* no field of the other write left over.
C18_LastWriteWins ==
  [][ \A r \in Slots :
        ( /\ reqs[r].pc = "loaded" /\ reqs'[r].pc # "loaded"
          /\ reqs[r].id \in DOMAIN stages )
        => stages'[reqs[r].id] = updateProgress(reqs[r].loaded, reqs[r].q, now) ]_vars

\* An actor who is not authorized for a stage: an employee the stage is not
\* assigned to, a supervisor who is not the stage's, an actor of another tenant.
Unauthorized(actor, stage) ==
  \/ actor.role = "employee" /\ actor.id \notin stage.assignedTo
  \/ actor.role = "supervisor" /\ stage.supervisor # actor.id
  \/ actor.companyId # stage.companyId

\* C20: a progress update by an actor who is not authorized for the stage is
\* rejected with 403 and changes no stage: no quantity, status or date, and no
\* successor's status.
C20_UnauthorizedProgressRejected ==
  [][ \A actor \in Actors, id \in DOMAIN stages, q \in 0..MaxQty :
        (UpdateStageProgress(actor, id, q) /\ Unauthorized(actor, stages[id]))
        => (last'.code = 403 /\ stages' = stages) ]_vars

\* C20 witness: a progress update on a stage that has no assignee and is
\* supervised by u1 was answered 403 (every actor in Actors who gets 403 on such
\* a stage is one of the three unauthorized kinds), and the stage is as created.
C20_Witness ==
  /\ last.op = "progress" /\ last.code = 403 /\ last.q > 0
  /\ last.id \in DOMAIN stages
  /\ stages[last.id].assignedTo = {}
  /\ stages[last.id].supervisor = "u1"
  /\ stages[last.id].status = "planned"
  /\ stages[last.id].completedQuantity = 0

\* C19: after a successful progress update on a production stage, the entry
\* for that stage in every work order that has one carries the new quantity
\* (as requested, or as the stage recorded it after the clamp).
C19_ProgressBubblesUp ==
  (last.op = "progress" /\ last.code = 200 /\ last.id \in DOMAIN stages)
  => \A w \in DOMAIN wo :
       LET i == FindEntry(wo[w].stages, last.id)
       IN  i # 0 => wo[w].stages[i].completedQuantity
                      \in {last.q, stages[last.id].completedQuantity}

\* ------------------------------------------------- progress-only claims

\* C21: a stage that progress updates have given a quantity > 0 or an endDate
\* has a startDate; a first update that goes straight to the target included.
C21_StartDateOnFirstProgress ==
  \A id \in DOMAIN stages :
    (stages[id].completedQuantity > 0 \/ stages[id].endDate # NoDate)
    => stages[id].startDate # NoDate

\* C24: a stage changed by progress updates only is completed exactly when
\* its completedQuantity equals its targetQuantity.
C24_CompletedIffAtTarget ==
  \A id \in DOMAIN stages :
    (stages[id].status = "completed")
    <=> (stages[id].completedQuantity = stages[id].targetQuantity)

\* C25: no progress update takes a completed stage back to in_progress or
\* planned.
C25_StatusOnlyForward ==
  [][ \A id \in DOMAIN stages :
        (last'.op = "progress" /\ last'.id = id /\ stages[id].status = "completed")
        => stages'[id].status = "completed" ]_vars

\* C22: a progress update changes, of every stage other than the updated
\* one, at most the status: an activated successor keeps its startDate,
\* endDate, completedQuantity and wipQuantity.
C22_ActivationChangesStatusOnly ==
  [][ \A b \in DOMAIN stages :
        (last'.op = "progress" /\ last'.code = 200 /\ b # last'.id)
        => /\ b \in DOMAIN stages'
           /\ stages'[b] = [stages[b] EXCEPT !.status = stages'[b].status]
           /\ stages'[b].status # stages[b].status
                => stages[b].status = "planned" /\ stages'[b].status = "in_progress" ]_vars

\* An activated successor that is in progress with no start time and with
\* the work-in-progress quantity an earlier update of its own gave it.
C22_Witness ==
  /\ last.op = "progress" /\ last.code = 200 /\ last.activation
  /\ \E b \in DOMAIN stages :
       /\ b # last.id
       /\ b \in stages[last.id].successors
       /\ stages[b].status = "in_progress"
       /\ stages[b].startDate = NoDate
       /\ stages[b].wipQuantity > 0

\* ------------------------------------------------------ cycle-check pass

\* C23: on every persisted graph the pass started at any id ends, hands each
\* id to findById at most once, and its verdict is there before the write:
\* an edge edit of a stage whose pass reports a cycle is refused with the
\* collection untouched, and an edge edit that is written had a clean pass.
C23_PassTerminatesFetchOnce ==
  /\ [] ( \A id \in Ids :
            LET pass == hasCycle(stages, id, NewPass)
            IN  /\ Len(pass.fetched) <= Cardinality(Ids)
                /\ \A i, j \in 1..Len(pass.fetched) :
                     pass.fetched[i] = pass.fetched[j] => i = j
                /\ { pass.fetched[i] : i \in 1..Len(pass.fetched) } = pass.visited )
  /\ [][ \A id \in DOMAIN stages :
           ( /\ last'.op = "update" /\ last'.id = id
             /\ last'.code \in {200, 500}
             /\ \/ last'.code = 500
                \/ stages'[id].successors # stages[id].successors
                \/ stages'[id].predecessors # stages[id].predecessors )
           => /\ last'.code = 500 <=> hasCycle(stages, id, NewPass).cycle
              /\ last'.code = 500 => stages' = stages ]_vars

\* A pass that ran on a persisted graph holding both a cycle and an edge to
\* an id that does not exist, fetched the missing id, and refused the edit.
C23_Witness ==
  /\ last.op = "update" /\ last.code = 500
  /\ last.id \in DOMAIN stages
  /\ LET pass == hasCycle(stages, last.id, NewPass)
     IN  /\ pass.cycle
         /\ \E i \in 1..Len(pass.fetched) : pass.fetched[i] \notin DOMAIN stages
         /\ Len(pass.fetched) = Cardinality(Ids)

\* ------------------------------------------------------- requests in flight

\* C26: the activation loop writes in_progress only onto a successor whose
\* persisted status is planned at the moment of the write.
C26_ActivationNeverOverwrites ==
  [][ \A r \in Slots :
        ( /\ reqs[r].pc = "activating"
          /\ ProgressActivate(r, FALSE)
          /\ Head(reqs[r].todo) \in DOMAIN stages )
        => stages[Head(reqs[r].todo)].status = "planned" ]_vars

\* C27: the delete removes no stage whose persisted status is in_progress,
\* and a stage that is gone comes back through no progress update.
C27_DeleteRespectsGuard ==
  [][ /\ \A id \in DOMAIN stages \ DOMAIN stages' :
           stages[id].status # "in_progress"
      /\ \A id \in DOMAIN stages' \ DOMAIN stages : last'.op = "create" ]_vars

\* ------------------------------------------------- work order, task claims

\* C28: a completed work order has its overall completedQuantity at the
\* target and every entry at or above the target.
C28_CompletedMeansAtTarget ==
  \A id \in DOMAIN wo :
    wo[id].status = "completed"
    => /\ wo[id].completedQuantity = Rat(wo[id].targetQuantity, 1)
       /\ \A i \in DOMAIN wo[id].stages :
            wo[id].stages[i].completedQuantity >= wo[id].targetQuantity

\* C29: a task progress request that ends in an error leaves the task as it
\* was before the request.
C29_TaskProgressAllOrNothing ==
  [][ (last'.op = "task_progress" /\ last'.code >= 400) => tasks' = tasks ]_vars

\* C30: after a task progress request answered 200 whose work order exists,
\* the work order's entry for the task's stage holds the task's persisted
\* completedQuantity.
C30_EntryMatchesTask ==
  [][ \A id \in DOMAIN tasks :
        ( /\ last'.op = "task_progress" /\ last'.id = id /\ last'.code = 200
          /\ tasks'[id].workOrderId \in DOMAIN wo' )
        => LET w == wo'[tasks'[id].workOrderId]
               i == FindEntry(w.stages, tasks'[id].stageId)
           IN  w.stages[i].completedQuantity = tasks'[id].completedQuantity ]_vars

====
